---- MODULE Spec2Model ----
(***************************************************************************)
(* A model of the blog API of backend/api: the Category, Post and User     *)
(* tables, the three resource controllers of views.py with their access    *)
(* policies, the serializers of serializers.py and the Post administration *)
(* of admin.py.  Every request is one atomic step that reads the store,    *)
(* possibly changes it, and leaves the request and its response in the     *)
(* state.                                                                  *)
(*                                                                         *)
(* Left out of the records: title, content, description and the            *)
(* timestamps, which no handler of the repository branches on; a request   *)
(* body is taken to carry a valid title and content.  A list response is   *)
(* the set of its items (ordering and pagination are not modelled).        *)
(***************************************************************************)
EXTENDS Integers, Sequences, FiniteSets, TLC

\* How many Category ids and Post ids the store hands out in a run.
MaxCategories == 2
MaxPosts == 2

\* Python's None and a present value.
None == <<>>
Some(x) == <<x>>

\* The rows of the identity table, and the identity of an unauthenticated request.
InitialUsers == {"alice", "bob"}
AnonymousUser == "AnonymousUser"

CategoryNames == {"news", "tech"}

VARIABLES
    users,           \* ids of the User rows
    categories,      \* Category id -> [name]
    posts,           \* Post id -> [category, author, published]
    nextCategoryId,  \* the next id the Category table assigns
    nextPostId,      \* the next id the Post table assigns
    request,         \* the request handled last
    response         \* its response

vars == <<users, categories, posts, nextCategoryId, nextPostId, request, response>>
store == <<users, categories, posts, nextCategoryId, nextPostId>>

Restrict(f, S) == [x \in S |-> f[x]]

-----------------------------------------------------------------------------
(* Strings are sequences of characters, so that str.lower() and int() are   *)
(* computed and not assumed.                                                *)

UpperCase == <<"A","B","C","D","E","F","G","H","I","J","K","L","M",
               "N","O","P","Q","R","S","T","U","V","W","X","Y","Z">>
LowerCase == <<"a","b","c","d","e","f","g","h","i","j","k","l","m",
               "n","o","p","q","r","s","t","u","v","w","x","y","z">>

LowerChar(c) ==
    IF \E i \in DOMAIN UpperCase : UpperCase[i] = c
    THEN LowerCase[CHOOSE i \in DOMAIN UpperCase : UpperCase[i] = c]
    ELSE c

\* str.lower()
Lower(s) == [i \in DOMAIN s |-> LowerChar(s[i])]

Digits == <<"0","1","2","3","4","5","6","7","8","9">>

IsDigit(c) == \E i \in DOMAIN Digits : Digits[i] = c
DigitValue(c) == (CHOOSE i \in DOMAIN Digits : Digits[i] = c) - 1

RECURSIVE DecimalValue(_)
DecimalValue(s) ==
    IF Len(s) = 0 THEN 0
    ELSE 10 * DecimalValue(SubSeq(s, 1, Len(s) - 1)) + DigitValue(s[Len(s)])

\* int(s) of a query-string value: Some(n) for a run of decimal digits, None
\* where int() raises ValueError.
ParseInt(s) ==
    IF Len(s) > 0 /\ \A i \in DOMAIN s : IsDigit(s[i])
    THEN Some(DecimalValue(s))
    ELSE None

-----------------------------------------------------------------------------
(* The inputs of the requests.                                              *)

Callers == InitialUsers \cup {AnonymousUser}
CategoryIds == 1..MaxCategories
PostIds == 1..MaxPosts

CategoryParamValues == {<<"1">>, <<"0","2">>, <<"x">>}
PublishedParamValues ==
    {<<"t","r","u","e">>, <<"T","R","U","E">>, <<"f","a","l","s","e">>, <<"y","e","s">>}

Optional(S) == {None} \cup {Some(x) : x \in S}

QueryParams ==
    [category : Optional(CategoryParamValues), published : Optional(PublishedParamValues)]
NoParams == [category |-> None, published |-> None]
\* A request on one Post is sent with at most one of the two parameters.
DetailQueryParams == {qp \in QueryParams : qp.category = None \/ qp.published = None}

PostData ==
    [category_id : Optional(CategoryIds), published : Optional(BOOLEAN),
     author : Optional(InitialUsers)]
CategoryData == [name : Optional(CategoryNames)]
NoData == [k \in {} |-> None]

\* dict.get(key): None when the key is absent.
Get(d, key) == d[key]

Request(user, method, resource, action, pk, qp, data) ==
    [user |-> user, method |-> method, resource |-> resource, action |-> action,
     pk |-> pk, query_params |-> qp, data |-> data]

Response(status, kind, data) == [status |-> status, kind |-> kind, data |-> data]

\* No request is being handled.
NoRequest == Request(AnonymousUser, "", "", "none", 0, NoParams, NoData)
NoResponse == Response(0, "none", None)
Idle == request.action = "none"

Init ==
    /\ users = InitialUsers
    /\ categories = [c \in {} |-> [name |-> "news"]]
    /\ posts = [p \in {} |-> [category |-> 1, author |-> "alice", published |-> FALSE]]
    /\ nextCategoryId = 1
    /\ nextPostId = 1
    /\ request = NoRequest
    /\ response = NoResponse

-----------------------------------------------------------------------------
(* Data model: models.py                                                    *)

PostsOf(ps, c) == {p \in DOMAIN ps : ps[p].category = c}

\* Post.category is a required ForeignKey: a row naming no Category row is
\* refused by the store (IntegrityError).
ForeignKeyHolds(cats, row) == row.category \in DOMAIN cats

\* A delete of a Category that leaves its Posts in place.
CascadeNothing(ps, c) == ps

\* on_delete=CASCADE of Post.category: the Posts that survive the delete of c.
CascadeCategory(ps, c) == Restrict(ps, DOMAIN ps \ PostsOf(ps, c))

\* on_delete=CASCADE of Post.author.
CascadeAuthor(ps, u) == Restrict(ps, {p \in DOMAIN ps : ps[p].author # u})

-----------------------------------------------------------------------------
(* Serialization layer: serializers.py                                      *)

SerializeUser(u) == [id |-> u]

\* A count taken from the store as it was when the request began.
GetPostsCountStale(ps, c) == Cardinality(PostsOf(posts, c))

\* CategorySerializer.get_posts_count: obj.posts.count(), a query on the store.
GetPostsCount(ps, c) == Cardinality(PostsOf(ps, c))

SerializeCategory(cats, ps, c) ==
    [id |-> c, name |-> cats[c].name, posts_count |-> GetPostsCount(ps, c)]

\* category_id is write-only and is not part of the output.
SerializePost(cats, ps, p) ==
    [id |-> p,
     category |-> SerializeCategory(cats, ps, ps[p].category),
     author |-> SerializeUser(ps[p].author),
     published |-> ps[p].published]

\* A create that lets the body's author through.
PostSerializerCreateFromBody(user, data) ==
    [category |-> Get(data, "category_id")[1],
     author |-> IF Get(data, "author") = None THEN user ELSE Get(data, "author")[1],
     published |-> IF Get(data, "published") = None THEN FALSE
                   ELSE Get(data, "published")[1]]

\* PostSerializer.create: author is read-only, so validated_data holds
\* category_id and (when sent) published; the requesting user is added.
PostSerializerCreate(user, data) ==
    [category |-> Get(data, "category_id")[1],
     author |-> user,
     published |-> IF Get(data, "published") = None THEN FALSE
                   ELSE Get(data, "published")[1]]

\* ModelSerializer.update over PostSerializer's writable fields.
PostSerializerUpdate(row, data) ==
    [category |-> IF Get(data, "category_id") = None THEN row.category
                  ELSE Get(data, "category_id")[1],
     author |-> row.author,
     published |-> IF Get(data, "published") = None THEN row.published
                   ELSE Get(data, "published")[1]]

\* category_id is required unless the update is partial (PATCH).
PostDataValid(data, partial) == partial \/ Get(data, "category_id") # None
CategoryDataValid(data, partial) == partial \/ Get(data, "name") # None

-----------------------------------------------------------------------------
(* Access control: the permission_classes of views.py                       *)

SAFE_METHODS == {"GET", "HEAD", "OPTIONS"}

IsAuthenticated(user) == user # AnonymousUser
IsAuthenticatedOrReadOnly(method, user) == method \in SAFE_METHODS \/ IsAuthenticated(user)

\* No access policy at all.
AllowAny(method, user) == TRUE

CategoryPermission(method, user) == IsAuthenticatedOrReadOnly(method, user)
PostPermission(method, user) == IsAuthenticatedOrReadOnly(method, user)
\* The policy of the other two resources, put on the User resource.
UserPermissionOpenRead(method, user) == method \in SAFE_METHODS \/ IsAuthenticated(user)

UserPermission(method, user) == IsAuthenticated(user)

\* NotAuthenticated is answered 401 or 403, by the authentication scheme the
\* deployment configures.
NotAuthenticatedStatus == {401, 403}

Denied ==
    /\ \E s \in NotAuthenticatedStatus :
          response' = Response(s, "detail",
                          [detail |-> "Authentication credentials were not provided."])
    /\ UNCHANGED store

Reply(status, kind, data) ==
    /\ response' = Response(status, kind, data)
    /\ UNCHANGED store

NotFound == Reply(404, "detail", [detail |-> "Not found."])
BadRequest == Reply(400, "detail", [detail |-> "This field is required."])
ServerError(what) == Reply(500, "detail", [detail |-> what])
MethodNotAllowed == Reply(405, "detail", [detail |-> "Method not allowed."])

-----------------------------------------------------------------------------
(* Category resource: CategoryViewSet                                       *)

CategoryList(user) ==
    /\ request' = Request(user, "GET", "categories", "list", 0, NoParams, NoData)
    /\ IF ~CategoryPermission("GET", user) THEN Denied
       ELSE Reply(200, "categories",
                  {SerializeCategory(categories, posts, c) : c \in DOMAIN categories})

CategoryRetrieve(user, pk) ==
    /\ request' = Request(user, "GET", "categories", "retrieve", pk, NoParams, NoData)
    /\ IF ~CategoryPermission("GET", user) THEN Denied
       ELSE IF pk \notin DOMAIN categories THEN NotFound
       ELSE Reply(200, "category", SerializeCategory(categories, posts, pk))

CategoryCreate(user, data) ==
    /\ request' = Request(user, "POST", "categories", "create", 0, NoParams, data)
    /\ IF ~CategoryPermission("POST", user) THEN Denied
       ELSE IF ~CategoryDataValid(data, FALSE) THEN BadRequest
       ELSE /\ nextCategoryId <= MaxCategories
            /\ categories' = (nextCategoryId :> [name |-> Get(data, "name")[1]]) @@ categories
            /\ nextCategoryId' = nextCategoryId + 1
            /\ response' = Response(201, "category",
                               SerializeCategory(categories', posts, nextCategoryId))
            /\ UNCHANGED <<users, posts, nextPostId>>

CategoryUpdate(user, pk, data, partial) ==
    /\ request' = Request(user, IF partial THEN "PATCH" ELSE "PUT", "categories",
                          "update", pk, NoParams, data)
    /\ IF ~CategoryPermission(request'.method, user) THEN Denied
       ELSE IF pk \notin DOMAIN categories THEN NotFound
       ELSE IF ~CategoryDataValid(data, partial) THEN BadRequest
       ELSE /\ categories' =
                  IF Get(data, "name") = None THEN categories
                  ELSE [categories EXCEPT ![pk].name = Get(data, "name")[1]]
            /\ response' = Response(200, "category",
                               SerializeCategory(categories', posts, pk))
            /\ UNCHANGED <<users, posts, nextCategoryId, nextPostId>>

CategoryDestroy(user, pk) ==
    /\ request' = Request(user, "DELETE", "categories", "destroy", pk, NoParams, NoData)
    /\ IF ~CategoryPermission("DELETE", user) THEN Denied
       ELSE IF pk \notin DOMAIN categories THEN NotFound
       ELSE /\ categories' = Restrict(categories, DOMAIN categories \ {pk})
            /\ posts' = CascadeCategory(posts, pk)
            /\ response' = Response(204, "empty", None)
            /\ UNCHANGED <<users, nextCategoryId, nextPostId>>

\* GET /categories/{id}/posts/
CategoryPosts(user, pk) ==
    /\ request' = Request(user, "GET", "categories", "posts", pk, NoParams, NoData)
    /\ IF ~CategoryPermission("GET", user) THEN Denied
       ELSE IF pk \notin DOMAIN categories THEN NotFound
       ELSE Reply(200, "posts",
                  {SerializePost(categories, posts, p) : p \in PostsOf(posts, pk)})

-----------------------------------------------------------------------------
(* Post resource: PostViewSet                                               *)

TrueLiteral == <<"t","r","u","e">>

\* A published filter that compares without lower().
GetQuerysetCaseSensitive(ps, qp) ==
    LET category == Get(qp, "category")
        published == Get(qp, "published")
        byCategory ==
            IF category = None THEN DOMAIN ps
            ELSE {p \in DOMAIN ps : Some(ps[p].category) = ParseInt(category[1])}
        byPublished ==
            IF published = None THEN byCategory
            ELSE {p \in byCategory : ps[p].published = (published[1] = TrueLiteral)}
    IN  IF category # None /\ ParseInt(category[1]) = None THEN None
        ELSE Some(byPublished)

\* PostViewSet.get_queryset: the ids of the Posts the request's parameters
\* select, as Some(ids); None where filter(category__id=...) raises ValueError
\* on a value that is no integer.
GetQueryset(ps, qp) ==
    LET category == Get(qp, "category")
        published == Get(qp, "published")
        byCategory ==
            IF category = None THEN DOMAIN ps
            ELSE {p \in DOMAIN ps : Some(ps[p].category) = ParseInt(category[1])}
        byPublished ==
            IF published = None THEN byCategory
            ELSE {p \in byCategory : ps[p].published = (Lower(published[1]) = TrueLiteral)}
    IN  IF category # None /\ ParseInt(category[1]) = None THEN None
        ELSE Some(byPublished)

\* A lookup by pk on the unfiltered table.
GetObjectUnfiltered(ps, qp, pk) == pk \in DOMAIN ps

\* GenericAPIView.get_object: the lookup by pk runs on get_queryset().
GetObject(ps, qp, pk) == pk \in GetQueryset(ps, qp)[1]

ValueError == ServerError("ValueError")
IntegrityError == ServerError("IntegrityError")

PostList(user, qp) ==
    /\ request' = Request(user, "GET", "posts", "list", 0, qp, NoData)
    /\ IF ~PostPermission("GET", user) THEN Denied
       ELSE IF GetQueryset(posts, qp) = None THEN ValueError
       ELSE Reply(200, "posts",
                  {SerializePost(categories, posts, p) : p \in GetQueryset(posts, qp)[1]})

PostRetrieve(user, pk, qp) ==
    /\ request' = Request(user, "GET", "posts", "retrieve", pk, qp, NoData)
    /\ IF ~PostPermission("GET", user) THEN Denied
       ELSE IF GetQueryset(posts, qp) = None THEN ValueError
       ELSE IF ~GetObject(posts, qp, pk) THEN NotFound
       ELSE Reply(200, "post", SerializePost(categories, posts, pk))

PostCreate(user, data) ==
    /\ request' = Request(user, "POST", "posts", "create", 0, NoParams, data)
    /\ IF ~PostPermission("POST", user) THEN Denied
       ELSE IF ~PostDataValid(data, FALSE) THEN BadRequest
       ELSE IF ~ForeignKeyHolds(categories, PostSerializerCreate(user, data))
            THEN IntegrityError
       ELSE /\ nextPostId <= MaxPosts
            /\ posts' = (nextPostId :> PostSerializerCreate(user, data)) @@ posts
            /\ nextPostId' = nextPostId + 1
            /\ response' = Response(201, "post",
                               SerializePost(categories, posts', nextPostId))
            /\ UNCHANGED <<users, categories, nextCategoryId>>

PostUpdate(user, pk, qp, data, partial) ==
    /\ request' = Request(user, IF partial THEN "PATCH" ELSE "PUT", "posts",
                          "update", pk, qp, data)
    /\ IF ~PostPermission(request'.method, user) THEN Denied
       ELSE IF GetQueryset(posts, qp) = None THEN ValueError
       ELSE IF ~GetObject(posts, qp, pk) THEN NotFound
       ELSE IF ~PostDataValid(data, partial) THEN BadRequest
       ELSE IF ~ForeignKeyHolds(categories, PostSerializerUpdate(posts[pk], data))
            THEN IntegrityError
       ELSE /\ posts' = [posts EXCEPT ![pk] = PostSerializerUpdate(posts[pk], data)]
            /\ response' = Response(200, "post", SerializePost(categories, posts', pk))
            /\ UNCHANGED <<users, categories, nextCategoryId, nextPostId>>

PostDestroy(user, pk, qp) ==
    /\ request' = Request(user, "DELETE", "posts", "destroy", pk, qp, NoData)
    /\ IF ~PostPermission("DELETE", user) THEN Denied
       ELSE IF GetQueryset(posts, qp) = None THEN ValueError
       ELSE IF ~GetObject(posts, qp, pk) THEN NotFound
       ELSE /\ posts' = Restrict(posts, DOMAIN posts \ {pk})
            /\ response' = Response(204, "empty", None)
            /\ UNCHANGED <<users, categories, nextCategoryId, nextPostId>>

\* my_posts without its check of is_authenticated.
MyPostsResponseUnchecked(user) ==
    Response(200, "posts",
        {SerializePost(categories, posts, p) :
            p \in {q \in DOMAIN posts : posts[q].author = user}})

\* PostViewSet.my_posts, past the permission check: the explicit 401 for an
\* anonymous user, else the user's Posts (Post.objects, not get_queryset()).
MyPostsResponse(user) ==
    IF ~IsAuthenticated(user)
    THEN Response(401, "detail", [detail |-> "Authentication required"])
    ELSE Response(200, "posts",
             {SerializePost(categories, posts, p) :
                 p \in {q \in DOMAIN posts : posts[q].author = user}})

\* GET /posts/my_posts/
MyPosts(user) ==
    /\ request' = Request(user, "GET", "posts", "my_posts", 0, NoParams, NoData)
    /\ IF ~PostPermission("GET", user) THEN Denied
       ELSE /\ response' = MyPostsResponse(user)
            /\ UNCHANGED store

-----------------------------------------------------------------------------
(* User resource: UserViewSet                                               *)

\* ReadOnlyModelViewSet routes list and retrieve; me is the extra action.
UserViewSetProvides(action) == action \in {"list", "retrieve", "me"}

UserActionOf(method) ==
    CASE method = "POST" -> "create"
      [] method = "DELETE" -> "destroy"
      [] OTHER -> "update"

UserList(user) ==
    /\ request' = Request(user, "GET", "users", "list", 0, NoParams, NoData)
    /\ IF ~UserPermission("GET", user) THEN Denied
       ELSE Reply(200, "users", {SerializeUser(u) : u \in users})

UserRetrieve(user, pk) ==
    /\ request' = Request(user, "GET", "users", "retrieve", pk, NoParams, NoData)
    /\ IF ~UserPermission("GET", user) THEN Denied
       ELSE IF pk \notin users THEN NotFound
       ELSE Reply(200, "user", SerializeUser(pk))

\* GET /users/me/
UserMe(user) ==
    /\ request' = Request(user, "GET", "users", "me", 0, NoParams, NoData)
    /\ IF ~UserPermission("GET", user) THEN Denied
       ELSE Reply(200, "user", SerializeUser(user))

\* POST, PUT, PATCH and DELETE on /users/: routed only to an action the
\* viewset provides.
UserWrite(user, method, pk) ==
    /\ request' = Request(user, method, "users", UserActionOf(method), pk, NoParams, NoData)
    /\ IF ~UserPermission(method, user) THEN Denied
       ELSE IF ~UserViewSetProvides(UserActionOf(method)) THEN MethodNotAllowed
       ELSE IF method # "POST" /\ pk \notin users THEN NotFound
       ELSE IF method = "DELETE"
            THEN /\ users' = users \ {pk}
                 /\ posts' = CascadeAuthor(posts, pk)
                 /\ response' = Response(204, "empty", None)
                 /\ UNCHANGED <<categories, nextCategoryId, nextPostId>>
       ELSE Reply(200, "user", SerializeUser(pk))

-----------------------------------------------------------------------------
(* Administrative surface: admin.py.  Every User row is taken to be staff   *)
(* with the permissions of the Post and Category administration.           *)

PostForm == [category : CategoryIds, author : InitialUsers, published : BOOLEAN]

\* ModelForm validation of the two ModelChoiceFields.
PostFormValid(form) == form.category \in DOMAIN categories /\ form.author \in users

\* save_model without the override of the author.
SaveModelAsSubmitted(user, obj, change) == obj

\* PostAdmin.save_model: the row that is saved for the form's instance obj.
SaveModel(user, obj, change) ==
    IF ~change THEN [obj EXCEPT !.author = user] ELSE obj

LoginRedirect == Reply(302, "login", None)
FormErrors == Reply(200, "form_errors", None)

AdminPostAdd(user, form) ==
    /\ request' = Request(user, "POST", "admin", "post_add", 0, NoParams, form)
    /\ IF ~IsAuthenticated(user) THEN LoginRedirect
       ELSE IF ~PostFormValid(form) THEN FormErrors
       ELSE /\ nextPostId <= MaxPosts
            /\ posts' = (nextPostId :> SaveModel(user, form, FALSE)) @@ posts
            /\ nextPostId' = nextPostId + 1
            /\ response' = Response(302, "redirect", None)
            /\ UNCHANGED <<users, categories, nextCategoryId>>

AdminPostChange(user, pk, form) ==
    /\ request' = Request(user, "POST", "admin", "post_change", pk, NoParams, form)
    /\ IF ~IsAuthenticated(user) THEN LoginRedirect
       ELSE IF pk \notin DOMAIN posts THEN NotFound
       ELSE IF ~PostFormValid(form) THEN FormErrors
       ELSE /\ posts' = [posts EXCEPT ![pk] = SaveModel(user, form, TRUE)]
            /\ response' = Response(302, "redirect", None)
            /\ UNCHANGED <<users, categories, nextCategoryId, nextPostId>>

AdminCategoryDelete(user, pk) ==
    /\ request' = Request(user, "POST", "admin", "category_delete", pk, NoParams, NoData)
    /\ IF ~IsAuthenticated(user) THEN LoginRedirect
       ELSE IF pk \notin DOMAIN categories THEN NotFound
       ELSE /\ categories' = Restrict(categories, DOMAIN categories \ {pk})
            /\ posts' = CascadeCategory(posts, pk)
            /\ response' = Response(302, "redirect", None)
            /\ UNCHANGED <<users, nextCategoryId, nextPostId>>

-----------------------------------------------------------------------------

\* The response is sent and the request is over: nothing of it stays in the
\* process (request handling is stateless).
Deliver ==
    /\ ~Idle
    /\ request' = NoRequest
    /\ response' = NoResponse
    /\ UNCHANGED store

\* A request is taken up only when none is being handled.
Next ==
    \/ Idle /\ \E user \in Callers : CategoryList(user)
    \/ Idle /\ \E user \in Callers, pk \in CategoryIds : CategoryRetrieve(user, pk)
    \/ Idle /\ \E user \in Callers, data \in CategoryData : CategoryCreate(user, data)
    \/ Idle /\ \E user \in Callers, pk \in CategoryIds, data \in CategoryData, partial \in BOOLEAN :
                  CategoryUpdate(user, pk, data, partial)
    \/ Idle /\ \E user \in Callers, pk \in CategoryIds : CategoryDestroy(user, pk)
    \/ Idle /\ \E user \in Callers, pk \in CategoryIds : CategoryPosts(user, pk)
    \/ Idle /\ \E user \in Callers, qp \in QueryParams : PostList(user, qp)
    \/ Idle /\ \E user \in Callers, pk \in PostIds, qp \in DetailQueryParams : PostRetrieve(user, pk, qp)
    \/ Idle /\ \E user \in Callers, data \in PostData : PostCreate(user, data)
    \/ Idle /\ \E user \in Callers, pk \in PostIds, qp \in DetailQueryParams, data \in PostData,
                  partial \in BOOLEAN : PostUpdate(user, pk, qp, data, partial)
    \/ Idle /\ \E user \in Callers, pk \in PostIds, qp \in DetailQueryParams : PostDestroy(user, pk, qp)
    \/ Idle /\ \E user \in Callers : MyPosts(user)
    \/ Idle /\ \E user \in Callers : UserList(user)
    \/ Idle /\ \E user \in Callers, pk \in InitialUsers : UserRetrieve(user, pk)
    \/ Idle /\ \E user \in Callers : UserMe(user)
    \/ Idle /\ \E user \in Callers, method \in {"POST", "PUT", "PATCH", "DELETE"},
                  pk \in InitialUsers : UserWrite(user, method, pk)
    \/ Idle /\ \E user \in Callers, form \in PostForm : AdminPostAdd(user, form)
    \/ Idle /\ \E user \in Callers, pk \in PostIds, form \in PostForm : AdminPostChange(user, pk, form)
    \/ Idle /\ \E user \in Callers, pk \in CategoryIds : AdminCategoryDelete(user, pk)
    \/ Deliver

Spec == Init /\ [][Next]_vars

-----------------------------------------------------------------------------
(* Properties                                                               *)

IsPostRequest(action) == request.resource = "posts" /\ request.action = action

\* "true" in any letter case, spelled out character by character.
IsTrueIgnoringCase(s) ==
    /\ Len(s) = 4
    /\ s[1] \in {"t", "T"}
    /\ s[2] \in {"r", "R"}
    /\ s[3] \in {"u", "U"}
    /\ s[4] \in {"e", "E"}

\* The Post row satisfies every filter parameter of qp.
Satisfies(row, qp) ==
    /\ qp.category # None => ParseInt(qp.category[1]) = Some(row.category)
    /\ qp.published # None => row.published = IsTrueIgnoringCase(qp.published[1])

CategoryParamParses(qp) == qp.category = None \/ ParseInt(qp.category[1]) # None

\* C1: a successful POST /posts/ by user U stores a Post whose author is U and
\* answers with that author, whatever author the body names.
C1_CreateAuthorIsCaller ==
    (IsPostRequest("create") /\ response.status = 201) =>
        /\ response.data.id \in DOMAIN posts
        /\ posts[response.data.id].author = request.user
        /\ response.data.author = SerializeUser(request.user)

C1_Witness ==
    /\ IsPostRequest("create")
    /\ response.status = 201
    /\ request.data.author # None
    /\ request.data.author[1] # request.user

\* C2: the author of a Post never changes after creation: in every step, a Post
\* that exists before and after has the same author.
C2_AuthorImmutable ==
    [][\A p \in DOMAIN posts \cap DOMAIN posts' : posts'[p].author = posts[p].author]_vars

\* C3: every stored Post references a Category that exists (no Post survives
\* the delete of its Category).
C3_NoOrphanedPost == \A p \in DOMAIN posts : posts[p].category \in DOMAIN categories

C3_Witness ==
    /\ request.resource = "categories"
    /\ request.action = "destroy"
    /\ response.status = 204
    /\ nextPostId = MaxPosts + 1
    /\ Cardinality(DOMAIN posts) = 1
    /\ DOMAIN categories # {}

\* C4: an anonymous POST, PUT, PATCH or DELETE on /categories/ or /posts/ is
\* answered with an authorization error and leaves Categories and Posts as they
\* were; an anonymous list or retrieve never gets an authorization error, and
\* without query parameters a list, and a retrieve of an existing row, answer 200.
C4_AnonymousReadOnly ==
    [][(request'.user = AnonymousUser /\ request'.resource \in {"categories", "posts"}) =>
         IF request'.method \notin SAFE_METHODS
         THEN /\ response'.status \in NotAuthenticatedStatus
              /\ categories' = categories
              /\ posts' = posts
         ELSE /\ request'.action \in {"list", "retrieve"}
                    => response'.status \notin NotAuthenticatedStatus
              /\ (request'.action = "list" /\ request'.query_params = NoParams)
                    => response'.status = 200
              /\ (/\ request'.action = "retrieve"
                  /\ request'.query_params = NoParams
                  /\ request'.pk \in (IF request'.resource = "posts"
                                      THEN DOMAIN posts ELSE DOMAIN categories))
                    => response'.status = 200]_vars

C4_Witness ==
    /\ request.user = AnonymousUser
    /\ IsPostRequest("destroy")
    /\ request.pk \in DOMAIN posts
    /\ response.status \in NotAuthenticatedStatus

C6_AnonymousMyPosts ==
    (IsPostRequest("my_posts") /\ request.user = AnonymousUser) =>
        /\ response.status = 401
        /\ response.kind = "detail"
        /\ response.data.detail = "Authentication required"

C6_Witness ==
    /\ IsPostRequest("my_posts")
    /\ request.user = AnonymousUser
    /\ DOMAIN posts # {}

\* The Categories a response serializes, nested ones included.
SerializedCategories ==
    CASE response.kind = "categories" -> response.data
      [] response.kind = "category" -> {response.data}
      [] response.kind = "posts" -> {x.category : x \in response.data}
      [] response.kind = "post" -> {response.data.category}
      [] OTHER -> {}

\* C7: in every response, the posts_count of a serialized Category is the number
\* of Posts that reference it in the store at that moment.
C7_PostsCountIsLive ==
    \A c \in SerializedCategories :
        c.posts_count = Cardinality({p \in DOMAIN posts : posts[p].category = c.id})

C7_Witness ==
    /\ IsPostRequest("update")
    /\ request.data.category_id # None
    /\ response.status = 200
    /\ response.data.category.posts_count = 2

\* C8: a Post added through the administration has the acting administrator as
\* its author, whatever author the form names.
C8_AdminAddAuthorIsActor ==
    (request.resource = "admin" /\ request.action = "post_add"
        /\ response.kind = "redirect") =>
        /\ nextPostId - 1 \in DOMAIN posts
        /\ posts[nextPostId - 1].author = request.user

C8_Witness ==
    /\ request.resource = "admin"
    /\ request.action = "post_add"
    /\ response.kind = "redirect"
    /\ request.data.author # request.user

\* C9: every request on /users/ by an anonymous caller is answered by the
\* authentication gate, and no request on /users/ changes the User table.
C9_UsersGatedAndReadOnly ==
    [][request'.resource = "users" =>
         /\ users' = users
         /\ request'.user = AnonymousUser =>
              /\ response'.status \in NotAuthenticatedStatus
              /\ response'.data.detail = "Authentication credentials were not provided."]_vars

C9_Witness ==
    /\ request.resource = "users"
    /\ request.action = "me"
    /\ request.user = AnonymousUser
    /\ response.status \in NotAuthenticatedStatus

====
